---- MODULE Spec2Model ----
(***************************************************************************)
(* A model of watson-routing: the segmented path template parser, the      *)
(* template-to-pattern compiler and its matcher, path assembly, the        *)
(* request checks of a route, and the route collections (routers).         *)
(*                                                                         *)
(* Strings are sequences of one-character strings, so that slicing,        *)
(* searching and matching are computed character by character as the code  *)
(* computes them.                                                          *)
(***************************************************************************)
EXTENDS Integers, Sequences, FiniteSets, TLC

VARIABLES
    tpl,        \* the path template handed to segments_from_path / Segment()
    parsed,     \* the outcome of segments_from_path(tpl)
    route,      \* the outcome of constructing a route
    args,       \* the keyword arguments of the last assemble call
    assembled,  \* the outcome of the last assemble call
    request,    \* the request of the last match call
    matched,    \* the outcome of the last match call
    routes,     \* a router's routes, in the order of its OrderedDict
    requires_sort,  \* a router's _requires_sort flag
    yielded,    \* the outcome of the last call on the router
    given,      \* the definition data handed to the last call, as it left them
    routers,    \* the routers built from definition data, or held by a Choice
    op          \* the operation performed last

vars == <<tpl, parsed, route, args, assembled, request, matched,
          routes, requires_sort, yielded, given, routers, op>>

\* the state of the router
router_vars == <<routes, requires_sort, yielded, given, routers>>

----------------------------------------------------------------------------
(* Bounds of the model *)

\* longest template drawn character by character
MaxTplLen == 5

\* most routes a router holds before a route or definition is added
MaxRoutes == 3

\* most definitions in the data a router is built from
MaxDefinitions == 3

\* most routers built from the same data
MaxBuilds == 2

\* most routes added to a member router of a Choice
MaxMemberRoutes == 2

\* most member routers of a Choice
MaxRouters == 2

\* most pieces a route's template is put together from
MaxPieces == 5

\* most pieces a request path is put together from
MaxPathPieces == 4

----------------------------------------------------------------------------
(* Strings *)

\* Python's None: a value that no string (a sequence of characters) equals
None == <<"None">>

Str1(c) == <<c>>

\* s[n:] of Python for 0 <= n
Drop(s, n) == IF n >= Len(s) THEN <<>> ELSE SubSeq(s, n + 1, Len(s))

\* s[:n] of Python for 0 <= n
Take(s, n) == IF n >= Len(s) THEN s ELSE SubSeq(s, 1, n)

\* all sequences over S of length at most n
SeqsUpTo(S, n) == UNION {[1..k -> S] : k \in 0..n}

RECURSIVE Join(_)
\* ''.join(list)
Join(list) == IF list = <<>> THEN <<>> ELSE Head(list) \o Join(Tail(list))

----------------------------------------------------------------------------
(* routes.py: segments_from_path *)

\* the characters the character class of segments_pattern excludes
SegmentsPatternTokens == {":", "[", "]"}

\* the characters the character class of token_pattern excludes
TokenPatternStops == {":", "/", "[", "]"}

RECURSIVE RunLen(_, _, _)
\* length of the longest run of characters outside stops starting at s[i]
RunLen(s, i, stops) ==
    IF i > Len(s) \/ s[i] \in stops THEN 0 ELSE 1 + RunLen(s, i + 1, stops)

RECURSIVE FirstOutside(_, _, _)
\* index of the first character of s at or after i outside stops, 0 if none
FirstOutside(s, i, stops) ==
    IF i > Len(s) THEN 0
    ELSE IF s[i] \notin stops THEN i
    ELSE FirstOutside(s, i + 1, stops)

\* token_pattern.search(path): the first run of name characters anywhere in
\* path, None when there is none
token_pattern_search(path) ==
    LET i == FirstOutside(path, 1, TokenPatternStops)
    IN IF i = 0 THEN None
       ELSE SubSeq(path, i, i + RunLen(path, i, TokenPatternStops) - 1)

StaticNode(text) == [type |-> "static", value |-> text]
SegmentNode(name) == [type |-> "segment", value |-> name]
OptionalNode(children) == [type |-> "optional", value |-> children]

\* depth_segments[depth].append(node): depth_segments is the list of the open
\* levels, the last one being the level at the current depth
AppendAtDepth(depth_segments, node) ==
    [depth_segments EXCEPT ![Len(depth_segments)] = Append(@, node)]

RECURSIVE CloseOpenGroups(_)
\* the tree held by `segments` when the loop ends: a group still open holds
\* what was appended to it and stands in its parent where '[' put it
CloseOpenGroups(depth_segments) ==
    IF Len(depth_segments) = 1 THEN depth_segments[1]
    ELSE LET n == Len(depth_segments)
         IN CloseOpenGroups(
                AppendAtDepth(SubSeq(depth_segments, 1, n - 1),
                              OptionalNode(depth_segments[n])))

ParseOk(segments) == [error |-> "", segments |-> segments]
ParseError(kind) == [error |-> kind, segments |-> <<>>]

RECURSIVE ParseLoop(_, _)
\* the while loop of segments_from_path
ParseLoop(path, depth_segments) ==
    IF path = <<>> THEN ParseOk(CloseOpenGroups(depth_segments))
    ELSE
    LET n == RunLen(path, 1, SegmentsPatternTokens)
        static == SubSeq(path, 1, n)
        token == IF n < Len(path) THEN path[n + 1] ELSE ""
        rest == IF token = "" THEN Drop(path, n) ELSE Drop(path, n + 1)
        ds == IF static # <<>>
              THEN AppendAtDepth(depth_segments, StaticNode(static))
              ELSE depth_segments
    IN  IF token = ":" THEN
            LET segment == token_pattern_search(rest)
            IN IF segment = None THEN ParseError("AttributeError")
               ELSE ParseLoop(Drop(rest, Len(segment)),
                              AppendAtDepth(ds, SegmentNode(segment)))
        ELSE IF token = "[" THEN ParseLoop(rest, Append(ds, <<>>))
        ELSE IF token = "]" THEN
            IF Len(ds) = 1 THEN ParseError("ValueError")
            ELSE ParseLoop(rest,
                    AppendAtDepth(SubSeq(ds, 1, Len(ds) - 1),
                                  OptionalNode(ds[Len(ds)])))
        ELSE ParseOk(CloseOpenGroups(ds))

segments_from_path(path) == ParseLoop(path, << <<>> >>)

----------------------------------------------------------------------------
(* Constraint patterns: the regular expressions a route's requires holds.  *)
(* The model covers two shapes of pattern: a repeated character class,     *)
(* [chars]+ or [^chars]+, and a literal text.                              *)

\* text is the pattern as written; it is what a literal pattern matches
LiteralPattern(text) ==
    [kind |-> "literal", neg |-> FALSE, chars |-> {}, text |-> text]

\* end_pattern_string = '[^/]+'
end_pattern_string ==
    [kind |-> "class", neg |-> TRUE, chars |-> {"/"},
     text |-> <<"[", "^", "/", "]", "+">>]

InClass(pat, c) == IF pat.neg THEN c \notin pat.chars ELSE c \in pat.chars

RECURSIVE ClassRun(_, _, _)
\* the number of characters of s from position pos on that the class takes
ClassRun(pat, s, pos) ==
    IF pos > Len(s) \/ ~InClass(pat, s[pos]) THEN 0
    ELSE 1 + ClassRun(pat, s, pos + 1)

\* s has the text t at position pos
HasAt(s, pos, t) ==
    /\ pos + Len(t) - 1 <= Len(s)
    /\ SubSeq(s, pos, pos + Len(t) - 1) = t

\* re.compile(pattern).match(value): the pattern matches a prefix of value
PatternMatch(pat, value) ==
    IF pat.kind = "class" THEN ClassRun(pat, value, 1) >= 1
    ELSE HasAt(value, 1, pat.text)

\* the pattern matches the whole of value
PatternAccepts(pat, value) ==
    IF pat.kind = "class"
    THEN value # <<>> /\ ClassRun(pat, value, 1) = Len(value)
    ELSE value = pat.text

\* requires.get(key, default) on a mapping held as a function
Get(mapping, key, default) ==
    IF key \in DOMAIN mapping THEN mapping[key] ELSE default

----------------------------------------------------------------------------
(* routes.py: regex_from_segments, and the matching of the compiled regex  *)

\* The pattern string is held as the sequence of its parts: escaped static
\* text, a named group (?P<name>end), a group (?:...)? and the anchor $.
LitItem(text) == [type |-> "lit", value |-> text, end |-> None]
GroupItem(name, end) == [type |-> "group", value |-> name, end |-> end]
OptItem(items) == [type |-> "opt", value |-> items, end |-> None]
EosItem == [type |-> "eos", value |-> <<>>, end |-> None]

RECURSIVE RegexItems(_, _, _)
RECURSIVE regex_from_segments(_, _)
\* the for loop of regex_from_segments, from segment i on
RegexItems(segments, i, requires) ==
    IF i > Len(segments) THEN <<>>
    ELSE LET node == segments[i]
             item == IF node.type = "static" THEN LitItem(node.value)
                     ELSE IF node.type = "optional"
                     THEN OptItem(regex_from_segments(node.value, requires))
                     ELSE GroupItem(node.value,
                                    Get(requires, node.value, end_pattern_string))
         IN <<item>> \o RegexItems(segments, i + 1, requires)

\* every call, the nested ones included, appends '$'
regex_from_segments(segments, requires) ==
    Append(RegexItems(segments, 1, requires), EosItem)

RECURSIVE GroupNames(_)
\* the names of the named groups of a pattern, in pattern order
GroupNames(items) ==
    IF items = <<>> THEN <<>>
    ELSE LET item == Head(items)
         IN (IF item.type = "group" THEN <<item.value>>
             ELSE IF item.type = "opt" THEN GroupNames(item.value)
             ELSE <<>>) \o GroupNames(Tail(items))

Range(f) == {f[x] : x \in DOMAIN f}

\* re.compile(regex_string): a group name defined twice is an re.error
re_compile(items) ==
    IF Cardinality(Range(GroupNames(items))) # Len(GroupNames(items))
    THEN [error |-> "re.error", regex |-> <<>>]
    ELSE [error |-> "", regex |-> items]

\* '$' matches at the end of the string and before a newline that ends it
AtEnd(s, pos) ==
    \/ pos = Len(s) + 1
    \/ pos = Len(s) /\ s[pos] = "\n"

NoMatch == [matched |-> FALSE, groups |-> <<>>]

RECURSIVE MatchFrom(_, _, _, _)
RECURSIVE TryGroup(_, _, _, _, _, _)
\* The backtracking match of the items `todo` against s from pos: the first
\* way of matching in the order the engine tries them (a group greedily,
\* an optional group present before absent).
MatchFrom(todo, s, pos, groups) ==
    IF todo = <<>> THEN [matched |-> TRUE, groups |-> groups]
    ELSE
    LET item == Head(todo)
        rest == Tail(todo)
    IN  IF item.type = "lit" THEN
            IF HasAt(s, pos, item.value)
            THEN MatchFrom(rest, s, pos + Len(item.value), groups)
            ELSE NoMatch
        ELSE IF item.type = "eos" THEN
            IF AtEnd(s, pos) THEN MatchFrom(rest, s, pos, groups) ELSE NoMatch
        ELSE IF item.type = "opt" THEN
            LET present == MatchFrom(item.value \o rest, s, pos, groups)
            IN IF present.matched THEN present
               ELSE MatchFrom(rest, s, pos, groups)
        ELSE IF item.end.kind = "class" THEN
            TryGroup(item.value, rest, s, pos,
                     ClassRun(item.end, s, pos), groups)
        ELSE IF HasAt(s, pos, item.end.text) THEN
            MatchFrom(rest, s, pos + Len(item.end.text),
                      [groups EXCEPT ![item.value] = item.end.text])
        ELSE NoMatch

\* the group `name` takes n characters, then fewer, down to one
TryGroup(name, rest, s, pos, n, groups) ==
    IF n < 1 THEN NoMatch
    ELSE LET r == MatchFrom(rest, s, pos + n,
                     [groups EXCEPT ![name] = SubSeq(s, pos, pos + n - 1)])
         IN IF r.matched THEN r
            ELSE TryGroup(name, rest, s, pos, n - 1, groups)

\* regex.match(string): matched, and groupdict() with None for a group that
\* took no part
regex_match(regex, string) ==
    MatchFrom(regex, string, 1, [n \in Range(GroupNames(regex)) |-> None])

----------------------------------------------------------------------------
(* routes.py: path_from_segments *)

\* a ChainMap that looks a name up in the defaults first
ChainMapDefaultsFirst(kwargs, defaults) ==
    [n \in (DOMAIN kwargs) \cup (DOMAIN defaults) |->
        IF n \in DOMAIN defaults THEN defaults[n] ELSE kwargs[n]]

\* collections.ChainMap(kwargs, defaults): name -> value, None when absent
ChainMap(kwargs, defaults) ==
    [n \in (DOMAIN kwargs) \cup (DOMAIN defaults) |->
        IF n \in DOMAIN kwargs THEN kwargs[n] ELSE defaults[n]]

\* path[0:-k] on a list
SliceOff(path, k) ==
    IF k = 0 \/ k >= Len(path) THEN <<>> ELSE SubSeq(path, 1, Len(path) - k)

RECURSIVE PathLoop(_, _, _, _, _)
RECURSIVE path_from_segments(_, _, _)
\* the for loop of path_from_segments from segment i on; path is the list
\* of the pieces appended so far, optional the flag as the loop left it
PathLoop(segments, i, params, optional, path) ==
    IF i > Len(segments) THEN [error |-> "", missing |-> <<>>, path |-> Join(path)]
    ELSE
    LET node == segments[i]
        opt == IF optional THEN TRUE ELSE node.type = "optional"
    IN  IF node.type = "optional" THEN
            LET inner == path_from_segments(node.value, params, opt)
            IN IF inner.error # "" THEN inner
               ELSE PathLoop(segments, i + 1, params, opt,
                             Append(path, inner.path))
        ELSE IF node.type = "segment" THEN
            IF node.value \in DOMAIN params /\ params[node.value] # <<>>
            THEN PathLoop(segments, i + 1, params, opt,
                          Append(path, params[node.value]))
            ELSE IF opt
            THEN PathLoop(segments, i + 1, params, opt,
                          SliceOff(path, Len(segments) - 1))
            ELSE [error |-> "KeyError", missing |-> node.value, path |-> <<>>]
        ELSE PathLoop(segments, i + 1, params, opt, Append(path, node.value))

path_from_segments(segments, params, optional) ==
    PathLoop(segments, 1, params, optional, <<>>)

----------------------------------------------------------------------------
(* routes.py: Base, Segment and Literal routes *)

\* watson.http.REQUEST_METHODS
REQUEST_METHODS ==
    {"OPTIONS", "GET", "HEAD", "POST", "PUT", "DELETE", "TRACE", "CONNECT"}

\* watson.http.MIME_TYPES: format name -> media types, in table order
MIME_TYPES ==
    << [format |-> <<"x", "m", "l">>, types |-> {"text/xml", "application/xml"}],
       [format |-> <<"j", "s", "o", "n">>, types |-> {"application/json"}],
       [format |-> <<"t", "x", "t">>, types |-> {"text/plain"}] >>

\* request.environ.get('HTTP_ACCEPT') of a request without the header
AcceptNone == "None"

SubdomainKey == <<"s", "u", "b", "d", "o", "m", "a", "i", "n">>
FormatKey == <<"f", "o", "r", "m", "a", "t">>

\* a requires value that is a list or tuple of strings
SetValue(items) == [kind |-> "set", items |-> items]

\* mapping[key] = value on a mapping held as a function
Put(mapping, key, value) ==
    [k \in (DOMAIN mapping) \cup {key} |->
        IF k = key THEN value ELSE mapping[k]]

\* dict(a, **b)
Update(a, b) ==
    [k \in (DOMAIN a) \cup (DOMAIN b) |-> IF k \in DOMAIN b THEN b[k] ELSE a[k]]

\* the mapping without a key
Without(mapping, key) == [k \in (DOMAIN mapping) \ {key} |-> mapping[k]]

\* Base._process_requires: the compiled patterns of the string values
regex_requires(requires) ==
    [k \in {x \in DOMAIN requires : requires[x].kind # "set"} |-> requires[k]]

\* Base.priority
priority(r) == IF r.priority = 0 THEN 1 ELSE r.priority

NoParams == [matched |-> FALSE, error |-> "", params |-> <<>>]
Params(params) == [matched |-> TRUE, error |-> "", params |-> params]
Raised(kind) == [matched |-> FALSE, error |-> kind, params |-> <<>>]

\* the formats of MIME_TYPES that list the Accept header, in table order
Formats(accept_headers) ==
    SelectSeq(MIME_TYPES, LAMBDA entry : accept_headers \in entry.types)

RECURSIVE FormatLoop(_, _, _, _)
\* for format in formats: if the pattern matches, params['format'] = format
FormatLoop(formats, i, regex, params) ==
    IF i > Len(formats) THEN params
    ELSE FormatLoop(formats, i + 1, regex,
            IF PatternMatch(regex, formats[i].format)
            THEN Put(params, FormatKey, formats[i].format)
            ELSE params)

\* the query parameters that have a pattern in requires
Constrained(r, get) == (DOMAIN get) \cap DOMAIN regex_requires(r.requires)

\* the GET check of Base.match
QueryCheck(r, req, requires, params) ==
    IF req.method = "GET" /\ DOMAIN requires # {} /\ DOMAIN req.get # {}
    THEN IF \E k \in Constrained(r, req.get) :
                ~PatternMatch(r.requires[k], req.get[k])
         THEN NoParams
         ELSE Params(Update(params,
                  [k \in Constrained(r, req.get) |-> req.get[k]]))
    ELSE Params(params)

\* the format check of Base.match, then the GET check
FormatCheck(r, req, requires, params) ==
    IF FormatKey \in DOMAIN r.requires THEN
        LET formats == Formats(req.accept)
        IN IF formats # <<>> THEN
               IF FormatKey \notin DOMAIN regex_requires(r.requires)
               THEN Raised("KeyError")
               ELSE QueryCheck(r, req, Without(requires, FormatKey),
                        FormatLoop(formats, 1, r.requires[FormatKey], params))
           ELSE NoParams
    ELSE QueryCheck(r, req, requires, params)

\* the subdomain check of Base.match, then the checks after it
SubdomainCheck(r, req, requires, params) ==
    IF SubdomainKey \in DOMAIN r.requires THEN
        LET subdomain == r.requires[SubdomainKey]
        IN IF subdomain.kind = "set" THEN
               IF req.subdomain \notin subdomain.items THEN NoParams
               ELSE FormatCheck(r, req, Without(requires, SubdomainKey), params)
           ELSE IF req.subdomain # subdomain.text THEN NoParams
           ELSE FormatCheck(r, req, Without(requires, SubdomainKey), params)
    ELSE FormatCheck(r, req, requires, params)

\* Base.match
BaseMatch(r, req) ==
    IF req.method \notin r.accepts THEN NoParams
    ELSE SubdomainCheck(r, req, r.requires, r.defaults)

NoRoute ==
    [class |-> "", name |-> <<>>, path |-> None, accepts |-> {},
     requires |-> <<>>, defaults |-> <<>>, priority |-> 1,
     segments |-> <<>>, regex |-> <<>>]
Built(r) == [error |-> "", route |-> r]
NotBuilt(kind) == [error |-> kind, route |-> NoRoute]

\* Base.__init__
BaseInit(class, name, path, accepts, requires, defaults, prio) ==
    [class |-> class, name |-> name, path |-> path,
     accepts |-> IF accepts = {} THEN REQUEST_METHODS ELSE accepts,
     requires |-> requires, defaults |-> defaults, priority |-> prio,
     segments |-> <<>>, regex |-> <<>>]

Falsy(s) == s = None \/ s = <<>>

\* Segment.__init__ with the regex setter: regex, when given, is a string
Segment(name, path, accepts, requires, defaults, prio, regex) ==
    IF Falsy(path) /\ Falsy(regex) THEN NotBuilt("TypeError")
    ELSE
    LET base == BaseInit("Segment", name, path, accepts, requires, defaults, prio)
        parse == segments_from_path(IF Falsy(regex) THEN path ELSE regex)
        comp == re_compile(regex_from_segments(parse.segments, requires))
    IN  IF parse.error # "" THEN NotBuilt(parse.error)
        ELSE IF comp.error # "" THEN NotBuilt(comp.error)
        ELSE Built([base EXCEPT !.segments = parse.segments,
                                !.regex = comp.regex])

\* Literal's constructor is Base.__init__
Literal(name, path, accepts, requires, defaults, prio) ==
    Built(BaseInit("Literal", name, path, accepts, requires, defaults, prio))

Returned(path) == [error |-> "", missing |-> <<>>, path |-> path]

\* prefix + path if prefix else path
Prefixed(prefix, path) == IF Falsy(prefix) THEN path ELSE prefix \o path

\* Segment.assemble
SegmentAssemble(r, prefix, kw) ==
    LET res == path_from_segments(r.segments, ChainMap(kw, r.defaults), FALSE)
    IN IF res.error # "" THEN res ELSE Returned(Prefixed(prefix, res.path))

\* Literal.assemble
LiteralAssemble(r, prefix, kw) == Returned(Prefixed(prefix, r.path))

\* params[k] = v for the defaults whose entry in params is None
DefaultsForNone(params, defaults) ==
    [k \in DOMAIN params |->
        IF k \in DOMAIN defaults /\ params[k] = None THEN defaults[k]
        ELSE params[k]]

\* Segment.match
SegmentMatch(r, req) ==
    LET base == BaseMatch(r, req)
        m == regex_match(r.regex, req.path)
    IN  IF ~base.matched THEN base
        ELSE IF m.matched
        THEN Params(DefaultsForNone(Update(base.params, m.groups), r.defaults))
        ELSE NoParams

\* Literal.match
LiteralMatch(r, req) ==
    LET base == BaseMatch(r, req)
    IN IF base.matched /\ req.path = r.path THEN base
       ELSE IF base.error # "" THEN base ELSE NoParams

RouteMatchOf(r, req) ==
    IF r.class = "Segment" THEN SegmentMatch(r, req) ELSE LiteralMatch(r, req)

RouteAssemble(r, prefix, kw) ==
    IF r.class = "Segment" THEN SegmentAssemble(r, prefix, kw)
    ELSE LiteralAssemble(r, prefix, kw)

\* a GET request for a path, with no subdomain, Accept header or query
PlainRequest(path) ==
    [method |-> "GET", subdomain |-> <<>>, accept |-> AcceptNone,
     get |-> <<>>, path |-> path]

----------------------------------------------------------------------------
(* Template parsing *)

TplAlphabet == {"/", ":", "[", "]", "b"}

\* no router is in use
NoRouter ==
    /\ routes = <<>>
    /\ requires_sort = FALSE
    /\ yielded = None
    /\ given = None
    /\ routers = <<>>

\* the variables an operation has not set yet
Idle ==
    /\ parsed = None
    /\ route = None
    /\ args = None
    /\ assembled = None
    /\ request = None
    /\ matched = None

InitParse ==
    /\ tpl \in SeqsUpTo(TplAlphabet, MaxTplLen)
    /\ Idle
    /\ NoRouter
    /\ op = "init"

Parse ==
    /\ op = "init"
    /\ parsed' = segments_from_path(tpl)
    /\ op' = "parse"
    /\ UNCHANGED <<tpl, route, args, assembled, request, matched>>
    /\ UNCHANGED router_vars

NextParse == Parse

SpecParse == InitParse /\ [][NextParse]_vars

----------------------------------------------------------------------------
(* One Segment route: construction, assemble and match *)

\* the pieces templates are put together from
TplPieces ==
    { <<"/", "s">>, <<"/", ":", "b">>, <<"/", ":", "c">>, <<":", "c">>,
      <<"[", "/", ":", "b">>, <<"[", "/", ":", "c">>, <<"]">> }

RouteTemplates == {Join(ps) : ps \in SeqsUpTo(TplPieces, MaxPieces)}

SegNames == { <<"b">>, <<"c">> }

\* the values a parameter is given; the empty string is one of them
ArgValues == { <<>>, <<"x">>, <<"x", "s">>, <<"s", "/", "x">> }

\* the keyword arguments of assemble: any of the names may be left out
KwargsChoices == UNION {[D -> ArgValues] : D \in SUBSET SegNames}

\* the defaults and requires a route is declared with: none, a default for
\* b, or the pattern [^:]+ for both segments
NoColon == [kind |-> "class", neg |-> TRUE, chars |-> {":"},
            text |-> <<"[", "^", ":", "]", "+">>]
RouteOptions ==
    { [defaults |-> <<>>, requires |-> <<>>],
      [defaults |-> [n \in { <<"b">> } |-> <<"s">>], requires |-> <<>>],
      [defaults |-> <<>>, requires |-> [n \in SegNames |-> NoColon]] }

\* the pieces request paths are put together from
PathPieces == { <<"/", "s">>, <<"/", "x">>, <<"\n">> }

RequestPaths == {Join(ps) : ps \in SeqsUpTo(PathPieces, MaxPathPieces)}

RouteName == <<"r">>

InitRoute ==
    /\ tpl \in RouteTemplates
    /\ \E o \in RouteOptions :
           route = Segment(RouteName, tpl, {}, o.requires, o.defaults, 1, None)
    /\ parsed = None
    /\ args = None
    /\ assembled = None
    /\ request = None
    /\ matched = None
    /\ NoRouter
    /\ op = "init"

\* A route is immutable once built: the outcome of a call does not depend on
\* the calls made before it, so assemble and match are called on the route
\* as built.

\* route.assemble(**kw)
Assemble(kw) ==
    /\ op = "init"
    /\ route.error = ""
    /\ args' = kw
    /\ assembled' = SegmentAssemble(route.route, None, kw)
    /\ request' = None
    /\ matched' = None
    /\ op' = "assemble"
    /\ UNCHANGED <<tpl, parsed, route>>
    /\ UNCHANGED router_vars

\* route.match(request) for the path the last assemble call returned
MatchAssembled ==
    /\ op = "assemble"
    /\ assembled.error = ""
    /\ request' = PlainRequest(assembled.path)
    /\ matched' = SegmentMatch(route.route, request')
    /\ op' = "roundtrip"
    /\ UNCHANGED <<tpl, parsed, route, args, assembled>>
    /\ UNCHANGED router_vars

NextRoute ==
    \/ \E kw \in KwargsChoices : Assemble(kw)
    \/ MatchAssembled

SpecRoute == InitRoute /\ [][NextRoute]_vars

----------------------------------------------------------------------------
(* One Segment route matched against request paths *)

InitMatch ==
    /\ tpl \in RouteTemplates
    /\ route = Segment(RouteName, tpl, {}, <<>>, <<>>, 1, None)
    /\ parsed = None
    /\ args = None
    /\ assembled = None
    /\ request = None
    /\ matched = None
    /\ NoRouter
    /\ op = "init"

\* route.match(request) for any path
MatchPath(path) ==
    /\ op = "init"
    /\ route.error = ""
    /\ request' = PlainRequest(path)
    /\ matched' = SegmentMatch(route.route, request')
    /\ op' = "match"
    /\ UNCHANGED <<tpl, parsed, route, args, assembled>>
    /\ UNCHANGED router_vars

NextMatch == \E path \in RequestPaths : MatchPath(path)

SpecMatch == InitMatch /\ [][NextMatch]_vars

----------------------------------------------------------------------------
(* One route matched against requests: the request checks of Base.match *)

QueryKey == <<"q">>

Xml == <<"x", "m", "l">>
Json == <<"j", "s", "o", "n">>

\* the requires a route is declared with
RequiresChoices ==
    { <<>>,
      [k \in {FormatKey} |-> LiteralPattern(Xml)],
      [k \in {FormatKey} |-> LiteralPattern(Json)],
      [k \in {FormatKey} |-> SetValue({Xml, Json})],
      [k \in {SubdomainKey} |-> LiteralPattern(<<"t">>)],
      [k \in {SubdomainKey} |-> SetValue({<<"t">>, <<"u">>})],
      [k \in {QueryKey} |-> LiteralPattern(<<"x">>)],
      [k \in {FormatKey, QueryKey} |->
          IF k = FormatKey THEN LiteralPattern(Xml) ELSE LiteralPattern(<<"x">>)] }

Root == <<"/">>

\* the requests: method, subdomain, Accept header, query and path
Requests ==
    [method : {"GET", "POST"},
     subdomain : { <<>>, <<"t">> },
     accept : {AcceptNone, "text/xml", "application/json", "text/json"},
     get : { <<>>, [k \in {QueryKey} |-> <<"x">>], [k \in {QueryKey} |-> <<"s">>] },
     path : { Root, <<"/", "s">> }]

InitChecks ==
    /\ tpl = Root
    /\ \E requires \in RequiresChoices, accepts \in { {}, {"POST"} } :
          route \in { Literal(RouteName, tpl, accepts, requires, <<>>, 1),
                      Segment(RouteName, tpl, accepts, requires, <<>>, 1, None) }
    /\ parsed = None
    /\ args = None
    /\ assembled = None
    /\ request = None
    /\ matched = None
    /\ NoRouter
    /\ op = "init"

\* route.match(request)
MatchRequest(req) ==
    /\ op = "init"
    /\ route.error = ""
    /\ request' = req
    /\ matched' = RouteMatchOf(route.route, req)
    /\ op' = "match"
    /\ UNCHANGED <<tpl, parsed, route, args, assembled>>
    /\ UNCHANGED router_vars

NextChecks == \E req \in Requests : MatchRequest(req)

SpecChecks == InitChecks /\ [][NextChecks]_vars

----------------------------------------------------------------------------
(* routers.py: the route collections *)

\* the characters of router paths, in code point order
CodePoints == <<"\n", "/", ":", "[", "]", "b", "c", "p", "q", "r", "s", "x">>

Ord(c) == CHOOSE i \in 1..Len(CodePoints) : CodePoints[i] = c

RECURSIVE StrLess(_, _)
\* a < b on strings
StrLess(a, b) ==
    IF b = <<>> THEN FALSE
    ELSE IF a = <<>> THEN TRUE
    ELSE IF a[1] = b[1] THEN StrLess(Tail(a), Tail(b))
    ELSE Ord(a[1]) < Ord(b[1])

\* the sort key of Base.sort: (priority, path)
Key(r) == <<priority(r), r.path>>

\* v < w on sort keys: "lt", "ge", or the TypeError of ordering None and a
\* string, which is reached when the priorities are equal
KeyLess(v, w) ==
    IF v[1] # w[1] THEN (IF v[1] < w[1] THEN "lt" ELSE "ge")
    ELSE IF v[2] = None /\ w[2] = None THEN "ge"
    ELSE IF v[2] = None \/ w[2] = None THEN "TypeError"
    ELSE IF StrLess(v[2], w[2]) THEN "lt" ELSE "ge"

Sorted(items) == [error |-> "", items |-> items]
SortRaised(kind, items) == [error |-> kind, items |-> items]

Reverse(items) == [i \in 1..Len(items) |-> items[Len(items) + 1 - i]]

RECURSIVE count_run(_, _, _)
\* list.sort: the length of the run the list starts with, n items of which
\* are known to belong to it
count_run(items, n, descending) ==
    IF n = Len(items) THEN [error |-> "", n |-> n]
    ELSE LET c == KeyLess(Key(items[n + 1]), Key(items[n]))
         IN IF c = "TypeError" THEN [error |-> c, n |-> n]
            ELSE IF (c = "lt") = descending
            THEN count_run(items, n + 1, descending)
            ELSE [error |-> "", n |-> n]

RECURSIVE Bisect(_, _, _, _)
\* list.sort: the place of pivot among the sorted items, l and r from 0
Bisect(items, pivot, l, r) ==
    IF l >= r THEN [error |-> "", at |-> l]
    ELSE LET p == l + ((r - l) \div 2)
             c == KeyLess(Key(pivot), Key(items[p + 1]))
         IN IF c = "TypeError" THEN [error |-> c, at |-> l]
            ELSE IF c = "lt" THEN Bisect(items, pivot, l, p)
            ELSE Bisect(items, pivot, p + 1, r)

RECURSIVE binarysort(_, _)
\* list.sort: binary insertion of items[start..] into the sorted items before
binarysort(items, start) ==
    IF start > Len(items) THEN Sorted(items)
    ELSE LET found == Bisect(items, items[start], 0, start - 1)
         IN IF found.error # "" THEN SortRaised(found.error, items)
            ELSE binarysort(SubSeq(items, 1, found.at) \o <<items[start]>>
                                \o SubSeq(items, found.at + 1, start - 1)
                                \o SubSeq(items, start + 1, Len(items)),
                            start + 1)

\* sorted(items, key=(priority, path)) for a list shorter than a merge run
sorted(items) ==
    IF Len(items) < 2 THEN Sorted(items)
    ELSE LET first == KeyLess(Key(items[2]), Key(items[1]))
             run == count_run(items, 2, first = "lt")
         IN IF first = "TypeError" THEN SortRaised(first, items)
            ELSE IF run.error # "" THEN SortRaised(run.error, items)
            ELSE binarysort(
                    IF first = "lt"
                    THEN Reverse(SubSeq(items, 1, run.n))
                             \o SubSeq(items, run.n + 1, Len(items))
                    ELSE items,
                    run.n + 1)

\* the router: its routes, its flag, and the error its last call raised
Router(rs, flag) == [error |-> "", routes |-> rs, requires_sort |-> flag]

\* Base.sort
sort(router) ==
    IF router.requires_sort
    THEN LET s == sorted(router.routes)
         IN IF s.error # "" THEN [router EXCEPT !.error = s.error]
            ELSE Router(Reverse(s.items), FALSE)
    ELSE router

\* every route is appended, whatever its name
add_routeAppended(router, r) == Router(Append(router.routes, r), TRUE)

\* Base.add_route: the routes are an OrderedDict, so a route whose name is
\* registered takes the place of the route of that name
add_route(router, r) ==
    Router(IF \E i \in 1..Len(router.routes) : router.routes[i].name = r.name
           THEN [i \in 1..Len(router.routes) |->
                    IF router.routes[i].name = r.name THEN r
                    ELSE router.routes[i]]
           ELSE Append(router.routes, r),
           TRUE)

\* Segment.builder
SegmentBuilder(definition) ==
    IF \/ "regex" \in DOMAIN definition
       \/ /\ "path" \in DOMAIN definition
          /\ \E i \in 1..Len(definition.path) : definition.path[i] \in {"[", ":"}
    THEN IF "name" \notin DOMAIN definition THEN NotBuilt("TypeError")
         ELSE Segment(definition.name,
                      Get(definition, "path", None),
                      Get(definition, "accepts", {}),
                      Get(definition, "requires", <<>>),
                      Get(definition, "defaults", <<>>),
                      Get(definition, "priority", 1),
                      Get(definition, "regex", None))
    ELSE NotBuilt("TypeError")

\* Literal.builder
LiteralBuilder(definition) ==
    IF {"name", "path"} \subseteq DOMAIN definition
    THEN Literal(definition.name, definition.path,
                 Get(definition, "accepts", {}),
                 Get(definition, "requires", <<>>),
                 Get(definition, "defaults", <<>>),
                 Get(definition, "priority", 1))
    ELSE NotBuilt("TypeError")

\* Base.build_route: the first strategy that does not raise TypeError
FirstBuilt(segment, literal) ==
    IF segment.error # "TypeError" THEN segment
    ELSE IF literal.error # "TypeError" THEN literal
    ELSE NotBuilt("Exception")

build_route(definition) ==
    FirstBuilt(SegmentBuilder(definition), LiteralBuilder(definition))

\* '{}'.format(value) of a string or None
Format(value) == IF value = None THEN <<"N", "o", "n", "e">> ELSE value

\* a route's requires as the values they are declared with
Declared(requires) ==
    [k \in DOMAIN requires |->
        IF requires[k].kind = "set" THEN requires[k] ELSE requires[k].text]

\* the name of a child before it is qualified: a child held in a dict of
\* children carries the key it is held under as "key", and that key is its
\* name; a child held in a list is named by its own 'name'
ChildName(child) == IF "key" \in DOMAIN child THEN child.key ELSE child.name

\* a child definition whose name and path are left as they are declared
ChildDefinitionUnqualified(child, parent_route) ==
    [k \in (DOMAIN child) \cup {"requires", "defaults", "path", "name"} |->
        CASE k = "requires" ->
                Update(Get(child, "requires", <<>>), parent_route.requires)
          [] k = "defaults" ->
                Update(Get(child, "defaults", <<>>),
                       Declared(parent_route.requires))
          [] k = "path" -> Get(child, "path", <<"/">> \o ChildName(child))
          [] k = "name" -> ChildName(child)
          [] OTHER -> child[k]]

\* the child definition as _create_child_routes rewrites it
ChildDefinition(child, parent_route) ==
    LET name == Format(parent_route.name) \o <<"/">> \o ChildName(child)
        path == IF "path" \in DOMAIN child THEN child.path ELSE <<"/">> \o name
    IN  [k \in (DOMAIN child) \cup {"requires", "defaults", "path", "name"} |->
            CASE k = "requires" ->
                    Update(Get(child, "requires", <<>>), parent_route.requires)
              [] k = "defaults" ->
                    Update(Get(child, "defaults", <<>>),
                           Declared(parent_route.requires))
              [] k = "path" -> Format(parent_route.path) \o path
              [] k = "name" -> name
              [] OTHER -> child[k]]

RECURSIVE add_definition(_, _)
RECURSIVE create_child_routes(_, _, _, _)

\* the loop of _create_child_routes after the i-th child: added is the
\* router as add_definition of the child left it
ChildAdded(added, children, i, parent_route) ==
    IF added.error # "" THEN added
    ELSE create_child_routes(added, children, i + 1, parent_route)

\* Base._create_child_routes, from the i-th child on
create_child_routes(router, children, i, parent_route) ==
    IF i > Len(children) THEN router
    ELSE ChildAdded(add_definition(router,
                        ChildDefinition(children[i], parent_route)),
                    children, i, parent_route)

\* add_definition after _create_child_routes: self.add_route(route)
Expanded(expanded, r) ==
    IF expanded.error # "" THEN expanded ELSE add_route(expanded, r)

\* add_definition after build_route: built is what build_route returned
RouteBuilt(router, definition, built) ==
    IF built.error # "" THEN [router EXCEPT !.error = built.error]
    ELSE Expanded(create_child_routes(router,
                      Get(definition, "children", <<>>), 1, built.route),
                  built.route)

\* Base.add_definition
add_definition(router, definition) ==
    RouteBuilt(router, definition, build_route(definition))

RECURSIVE Mutated(_)
RECURSIVE MutatedChildren(_, _, _)
RECURSIVE ChildMutated(_, _, _, _)

\* the caller's list of children as _create_child_routes leaves it, from the
\* i-th child on: each child is rewritten in place before it is added, and
\* the loop ends at the first child whose addition raises
MutatedChildren(children, i, parent_route) ==
    IF i > Len(children) THEN children
    ELSE ChildMutated(children, i, parent_route,
                      ChildDefinition(children[i], parent_route))

\* the loop after the i-th child: child is the child as it was rewritten
ChildMutated(children, i, parent_route, child) ==
    IF add_definition(Router(<<>>, FALSE), child).error # ""
    THEN [children EXCEPT ![i] = Mutated(child)]
    ELSE MutatedChildren([children EXCEPT ![i] = Mutated(child)], i + 1,
                         parent_route)

\* the caller's definition after build_route returned built
MutatedBuilt(definition, built) ==
    IF built.error # "" \/ "children" \notin DOMAIN definition
    THEN definition
    ELSE [definition EXCEPT
            !.children = MutatedChildren(definition.children, 1, built.route)]

\* the caller's definition as add_definition leaves it
Mutated(definition) == MutatedBuilt(definition, build_route(definition))

Yielded(items) == [error |-> "", items |-> items]
YieldRaised(kind, items) == [error |-> kind, items |-> items]

RECURSIVE MatchesLoop(_, _, _, _, _)
\* the loop of Base.matches from the i-th route on; Base.match stops the
\* generator at the first route match it yields
MatchesLoop(rs, i, req, found, first) ==
    IF i > Len(rs) \/ (first /\ found # <<>>) THEN Yielded(found)
    ELSE LET m == RouteMatchOf(rs[i], req)
         IN IF m.error # "" THEN YieldRaised(m.error, found)
            ELSE MatchesLoop(rs, i + 1, req,
                    IF m.matched
                    THEN Append(found, [route |-> rs[i], params |-> m.params])
                    ELSE found,
                    first)

\* the generator of Base.matches over the router as self.sort() left it:
\* nothing is yielded when the sort raised
Generated(s, req, first) ==
    IF s.error # "" THEN YieldRaised(s.error, <<>>)
    ELSE MatchesLoop(s.routes, 1, req, <<>>, first)

\* Base.matches, consumed to its end
matches(router, req) == Generated(sort(router), req, FALSE)

\* Base.match
match(router, req) == Generated(sort(router), req, TRUE)

\* Base.assemble: route_name, and the keyword arguments handed on to the
\* route
assemble(router, route_name, kwargs) ==
    IF \E i \in 1..Len(router.routes) : router.routes[i].name = route_name
    THEN LET i == CHOOSE k \in 1..Len(router.routes) :
                      router.routes[k].name = route_name
         IN RouteAssemble(router.routes[i], None, kwargs)
    ELSE [error |-> "KeyError", missing |-> route_name, path |-> <<>>]

----------------------------------------------------------------------------
(* A router under add_route, add_definition, sort, match, matches and
   assemble *)

RouterNames == { <<"p">>, <<"q">>, <<"r">> }

RouterPriorities == {1, 2}

\* the routes handed to add_route: a literal route, a route built from a
\* template, and a route built from a pattern alone, which has no path
RouterRoutes ==
    UNION { { Literal(n, <<"/", "s">>, {}, <<>>, <<>>, p).route,
              Segment(n, <<"/", ":", "b">>, {}, <<>>, <<>>, p, None).route,
              Segment(n, None, {}, <<>>, <<>>, p, <<"/", "s">>).route }
            : <<n, p>> \in RouterNames \X RouterPriorities }

\* the definitions handed to add_definition
Definitions ==
    { [name |-> <<"p">>, path |-> <<"/", "s">>],
      [name |-> <<"q">>, path |-> <<"/", ":", "b">>, priority |-> 2],
      [name |-> <<"r">>, regex |-> <<"/", "s">>],
      [name |-> <<"q">>, path |-> <<"/", "s">>,
       children |-> << [name |-> <<"r">>, path |-> <<"/", ":", "c">>] >>],
      [name |-> <<"p">>, path |-> <<"/", "s">>,
       children |-> <<
          [key |-> <<"q">>, path |-> <<"/", ":", "b">>,
           requires |-> [n \in { <<"b">> } |-> NoColon],
           children |-> << [key |-> <<"r">>, path |-> <<"/", ":", "c">>] >>] >>],
      [name |-> <<"p">>, path |-> <<"/", "s">>,
       defaults |-> [n \in { <<"b">> } |-> <<"x">>],
       requires |-> [n \in { <<"c">> } |-> NoColon],
       children |-> << [key |-> <<"q">>, path |-> <<"/", ":", "b">>],
                       [key |-> <<"r">>] >>],
      [name |-> <<"p">>, path |-> <<"/", "s", "]">>],
      [name |-> <<"p">>, path |-> <<"/", ":", "]">>],
      [name |-> <<"p">>] }

RouterPaths == { <<"/", "s">>, <<"/", "x">>, <<"/", "s", "/", "x">> }

\* the keyword query_string of assemble and the mapping {'page': 1} given
\* for it
QueryString == <<"q", "u", "e", "r", "y", "_", "s", "t", "r", "i", "n", "g">>
PageOne == [k \in { <<"p", "a", "g", "e">> } |-> <<"1">>]

\* the keyword arguments of assemble on the router: a value for b, or none
RouterKwargs == { <<>>, [k \in { <<"b">> } |-> <<"x">>] }

TheRouter == Router(routes, requires_sort)

InitRouter ==
    /\ tpl = None
    /\ Idle
    /\ routes = <<>>
    /\ requires_sort = FALSE
    /\ yielded = None
    /\ given = None
    /\ routers = <<>>
    /\ op = "init"

\* what a call on the router leaves of it
Left(router) ==
    /\ routes' = router.routes
    /\ requires_sort' = router.requires_sort

\* what a call that may raise leaves of the router, with the error raised
LeftRaising(router) ==
    /\ Left(router)
    /\ yielded' = YieldRaised(router.error, <<>>)

\* router.add_route(r)
AddRoute(r) ==
    /\ Len(routes) < MaxRoutes
    /\ Left(add_route(TheRouter, r))
    /\ yielded' = None
    /\ request' = None
    /\ op' = "add_route"
    /\ given' = [before |-> SelectSeq(routes, LAMBDA x : x.name = r.name),
                 after |-> r]
    /\ args' = None
    /\ assembled' = None
    /\ UNCHANGED <<tpl, parsed, route, matched, routers>>

\* router.add_definition(definition)
AddDefinition(definition) ==
    /\ Len(routes) < MaxRoutes
    /\ LeftRaising(add_definition(TheRouter, definition))
    /\ given' = [before |-> definition, after |-> Mutated(definition)]
    /\ request' = None
    /\ op' = "add_definition"
    /\ args' = None
    /\ assembled' = None
    /\ UNCHANGED <<tpl, parsed, route, matched, routers>>

\* router.sort()
Sort ==
    /\ LeftRaising(sort(TheRouter))
    /\ request' = None
    /\ op' = "sort"
    /\ given' = None
    /\ args' = None
    /\ assembled' = None
    /\ UNCHANGED <<tpl, parsed, route, matched, routers>>

\* list(router.matches(request))
Matches(req) ==
    /\ Left(sort(TheRouter))
    /\ yielded' = matches(TheRouter, req)
    /\ request' = req
    /\ op' = "matches"
    /\ given' = None
    /\ args' = None
    /\ assembled' = None
    /\ UNCHANGED <<tpl, parsed, route, matched, routers>>

\* router.match(request)
Match(req) ==
    /\ Left(sort(TheRouter))
    /\ yielded' = match(TheRouter, req)
    /\ request' = req
    /\ op' = "match"
    /\ given' = None
    /\ args' = None
    /\ assembled' = None
    /\ UNCHANGED <<tpl, parsed, route, matched, routers>>

\* router.assemble(route_name, **kwargs)
AssembleNamed(route_name, kwargs) ==
    /\ args' = [name |-> route_name, kwargs |-> kwargs]
    /\ assembled' = assemble(TheRouter, route_name, kwargs)
    /\ yielded' = None
    /\ request' = None
    /\ given' = None
    /\ op' = "assemble"
    /\ UNCHANGED <<tpl, parsed, route, matched, routes, requires_sort, routers>>

NextRouter ==
    \/ \E r \in RouterRoutes : AddRoute(r)
    \/ \E definition \in Definitions : AddDefinition(definition)
    \/ Sort
    \/ \E path \in RouterPaths : Matches(PlainRequest(path))
    \/ \E path \in RouterPaths : Match(PlainRequest(path))
    \/ \E route_name \in RouterNames, kwargs \in RouterKwargs :
          AssembleNamed(route_name, kwargs)

SpecRouter == InitRouter /\ [][NextRouter]_vars

----------------------------------------------------------------------------
(* routers.py: List and Dict, built from definition data *)

\* isinstance(route_definition, BaseRoute)
IsRoute(route_definition) == "class" \in DOMAIN route_definition

\* List.__init__: the definition with the priority of its place, when it
\* declares none
Enumerated(route_definition, place) ==
    IF "priority" \in DOMAIN route_definition THEN route_definition
    ELSE [k \in (DOMAIN route_definition) \cup {"priority"} |->
            IF k = "priority" THEN place ELSE route_definition[k]]

\* Dict.__init__: the definition with the key it is held under as its name,
\* and '/' and that name as its path when it declares none
Keyed(route_definition) ==
    [k \in (DOMAIN route_definition) \cup {"name", "path"} |->
        CASE k = "name" -> route_definition.key
          [] k = "path" -> Get(route_definition, "path",
                               <<"/">> \o route_definition.key)
          [] OTHER -> route_definition[k]]

\* the definition as the constructor of a kind of router rewrites it
Prepared(kind, route_definition, i) ==
    IF kind = "List" THEN Enumerated(route_definition, i - 1)
    ELSE Keyed(route_definition)

RECURSIVE BuildLoop(_, _, _, _)
RECURSIVE EntryAdded(_, _, _, _)
\* the loop of List.__init__ and Dict.__init__ from the i-th entry on
BuildLoop(kind, router, definitions, i) ==
    IF i > Len(definitions) THEN router
    ELSE IF IsRoute(definitions[i])
    THEN BuildLoop(kind, router, definitions, i + 1)
    ELSE EntryAdded(kind, definitions, i,
                    add_definition(router, Prepared(kind, definitions[i], i)))

\* the loop after the i-th entry: added is the router as add_definition of
\* the entry left it
EntryAdded(kind, definitions, i, added) ==
    IF added.error # "" THEN added
    ELSE BuildLoop(kind, added, definitions, i + 1)

\* the end of the constructors: self.sort(), when no entry raised
BuildSorted(built) == IF built.error # "" THEN built ELSE sort(built)

\* List(routes) and Dict(routes): the router built, sorted
Build(kind, definitions) ==
    BuildSorted(BuildLoop(kind, Router(<<>>, FALSE), definitions, 1))

RECURSIVE MutatedData(_, _, _)
RECURSIVE EntryMutated(_, _, _, _)
\* the caller's definition data as the constructor leaves them
MutatedData(kind, definitions, i) ==
    IF i > Len(definitions) THEN definitions
    ELSE IF IsRoute(definitions[i]) THEN MutatedData(kind, definitions, i + 1)
    ELSE EntryMutated(kind, definitions, i, Prepared(kind, definitions[i], i))

\* the loop after the i-th entry: prepared is the entry as the constructor
\* rewrote it
EntryMutated(kind, definitions, i, prepared) ==
    IF add_definition(Router(<<>>, FALSE), prepared).error # ""
    THEN [definitions EXCEPT ![i] = Mutated(prepared)]
    ELSE MutatedData(kind, [definitions EXCEPT ![i] = Mutated(prepared)], i + 1)

----------------------------------------------------------------------------
(* Routers built one after the other from the same definition data *)

\* the definitions of a list of routes
ListDefinitions ==
    { [name |-> <<"p">>, path |-> <<"/", "s">>],
      [name |-> <<"q">>, path |-> <<"/", ":", "b">>],
      [name |-> <<"r">>, path |-> <<"/", "x">>, priority |-> 2],
      [name |-> <<"p">>, path |-> <<"/", "s">>,
       children |-> << [name |-> <<"q">>, path |-> <<"/", "x">>] >>] }

\* the definitions of a dict of routes, each under its key
DictDefinitions ==
    { [key |-> <<"p">>, path |-> <<"/", "s">>],
      [key |-> <<"q">>],
      [key |-> <<"r">>, path |-> <<"/", ":", "b">>, priority |-> 2],
      [key |-> <<"p">>, path |-> <<"/", "s">>,
       children |-> << [key |-> <<"q">>, path |-> <<"/", "x">>] >>] }

\* the keys of a dict are different from one another
DistinctKeys(definitions) ==
    \A i, j \in 1..Len(definitions) :
        definitions[i].key = definitions[j].key => i = j

\* the data a router is built from, with the kind of router built from them
BuildData ==
    { [kind |-> "List", data |-> ds] : ds \in SeqsUpTo(ListDefinitions, MaxDefinitions) }
    \cup { [kind |-> "Dict", data |-> ds] :
            ds \in {x \in SeqsUpTo(DictDefinitions, MaxDefinitions) : DistinctKeys(x)} }

InitBuild ==
    /\ tpl = None
    /\ Idle
    /\ routes = <<>>
    /\ requires_sort = FALSE
    /\ yielded = None
    /\ \E b \in BuildData :
          given = [kind |-> b.kind, before |-> b.data, after |-> b.data]
    /\ routers = <<>>
    /\ op = "init"

\* what a build leaves: the router built, and the error it raised
BuildLeft(built) ==
    /\ routers' = Append(routers, built)
    /\ yielded' = YieldRaised(built.error, <<>>)

\* List(data) or Dict(data), for the data as the builds before left them
BuildRouter ==
    /\ Len(routers) < MaxBuilds
    /\ BuildLeft(Build(given.kind, given.after))
    /\ given' = [given EXCEPT !.after = MutatedData(given.kind, given.after, 1)]
    /\ op' = "build"
    /\ UNCHANGED <<tpl, parsed, route, args, assembled, request, matched,
                   routes, requires_sort>>

NextBuild == BuildRouter

SpecBuild == InitBuild /\ [][NextBuild]_vars

----------------------------------------------------------------------------
(* C14 *)

\* the route a router holds for a name
RouteOf(router, name) ==
    router.routes[CHOOSE i \in 1..Len(router.routes) : router.routes[i].name = name]

\* the places of the list whose definition declares no priority
C14_Unprioritised ==
    {i \in 1..Len(given.before) : "priority" \notin DOMAIN given.before[i]}

\* the first router was built from data whose names differ from one another
C14_Built(kind) ==
    /\ op = "build" /\ Len(routers) = 1 /\ given.kind = kind
    /\ routers[1].error = ""
    /\ \A i, j \in 1..Len(given.before) :
          ChildName(given.before[i]) = ChildName(given.before[j]) => i = j

\* C14: in a List every definition that declares no priority gets its place
\* in the list as priority, so the effective priorities of these routes, as
\* route.priority returns them and the sort uses them, are strictly
\* increasing along the list; in a Dict such a route has priority 1.
C14_ListPriorities ==
    /\ C14_Built("List") =>
          \A i, j \in C14_Unprioritised :
              i < j => priority(RouteOf(routers[1], given.before[i].name))
                           < priority(RouteOf(routers[1], given.before[j].name))
    /\ C14_Built("Dict") =>
          \A i \in C14_Unprioritised :
              priority(RouteOf(routers[1], given.before[i].key)) = 1

----------------------------------------------------------------------------
(* routers.py: Choice *)

Chosen(items, members) == [error |-> "", items |-> items, routers |-> members]
ChoiceRaised(kind, items, members) ==
    [error |-> kind, items |-> items, routers |-> members]

\* Choice.add_router
add_router(members, router) == Append(members, router)

RECURSIVE InitLoop(_, _, _)
\* Choice.__init__: the routers of the arguments, from the i-th on
InitLoop(members, arguments, i) ==
    IF i > Len(arguments) THEN members
    ELSE InitLoop(add_router(members, arguments[i]), arguments, i + 1)

\* a member as a call of its matches leaves it
Iterated(router) == [sort(router) EXCEPT !.error = ""]

RECURSIVE ChoiceLoopReversed(_, _, _, _, _)
\* a loop over the members that starts with the member registered last
ChoiceLoopReversed(members, i, req, found, first) ==
    LET k == Len(members) + 1 - i
    IN  IF i > Len(members) \/ (first /\ found # <<>>) THEN Chosen(found, members)
        ELSE LET y == IF first THEN match(members[k], req)
                      ELSE matches(members[k], req)
                 left == [members EXCEPT ![k] = Iterated(members[k])]
             IN IF y.error # "" THEN ChoiceRaised(y.error, found \o y.items, left)
                ELSE ChoiceLoopReversed(left, i + 1, req, found \o y.items, first)

RECURSIVE ChoiceLoop(_, _, _, _, _)
\* the step of the loop after the i-th member: y is what the member's
\* matches yielded, left the members as the call left them
ChoiceStep(left, i, req, found, first, y) ==
    IF y.error # "" THEN ChoiceRaised(y.error, found \o y.items, left)
    ELSE ChoiceLoop(left, i + 1, req, found \o y.items, first)

\* the loop of Choice.matches over the members from the i-th on; Choice.match
\* stops the generator at the first route match it yields
ChoiceLoop(members, i, req, found, first) ==
    IF i > Len(members) \/ (first /\ found # <<>>) THEN Chosen(found, members)
    ELSE ChoiceStep([members EXCEPT ![i] = Iterated(members[i])], i, req,
                    found, first,
                    Generated(sort(members[i]), req, first))

RECURSIVE choice_assemble(_, _, _, _)
\* Choice.assemble: the loop over the members from the i-th on
choice_assemble(members, i, route_name, kwargs) ==
    IF i > Len(members)
    THEN [error |-> "KeyError", missing |-> route_name, path |-> <<>>]
    ELSE IF \E k \in 1..Len(members[i].routes) :
                members[i].routes[k].name = route_name
    THEN assemble(members[i], route_name, kwargs)
    ELSE choice_assemble(members, i + 1, route_name, kwargs)

----------------------------------------------------------------------------
(* A Choice of routers under add_router, match, matches and assemble *)

\* the routes of the member routers; the last is built from a pattern alone
\* and has no path
MemberRoutes ==
    { Literal(<<"p">>, <<"/", "s">>, {}, <<>>, <<>>, 1).route,
      Literal(<<"q">>, <<"/", "s">>, {}, <<>>, <<>>, 2).route,
      Segment(<<"r">>, None, {}, <<>>, <<>>, 1, <<"/", "s">>).route }

RECURSIVE WithRoutes(_, _, _)
\* the router after add_route for each of the routes from the i-th on
WithRoutes(router, rs, i) ==
    IF i > Len(rs) THEN router
    ELSE WithRoutes(add_route(router, rs[i]), rs, i + 1)

\* the member routers: a router and the routes added to it
MemberRouters ==
    {WithRoutes(Router(<<>>, FALSE), rs, 1) : rs \in SeqsUpTo(MemberRoutes, MaxMemberRoutes)}

InitChoice ==
    /\ tpl = None
    /\ Idle
    /\ routes = <<>>
    /\ requires_sort = FALSE
    /\ yielded = None
    /\ given = None
    /\ \E arguments \in SeqsUpTo(MemberRouters, MaxRouters) :
          routers = InitLoop(<<>>, arguments, 1)
    /\ op = "init"

\* choice.add_router(router)
AddRouter(router) ==
    /\ Len(routers) < MaxRouters
    /\ routers' = add_router(routers, router)
    /\ yielded' = None
    /\ request' = None
    /\ op' = "add_router"
    /\ args' = None
    /\ assembled' = None
    /\ UNCHANGED <<tpl, parsed, route, matched, routes, requires_sort, given>>

\* what a call of matches or match on the Choice leaves
ChoiceLeft(chosen) ==
    /\ routers' = chosen.routers
    /\ yielded' = YieldRaised(chosen.error, chosen.items)

\* list(choice.matches(request))
ChoiceMatches(req) ==
    /\ ChoiceLeft(ChoiceLoop(routers, 1, req, <<>>, FALSE))
    /\ request' = req
    /\ op' = "choice matches"
    /\ args' = None
    /\ assembled' = None
    /\ UNCHANGED <<tpl, parsed, route, matched, routes, requires_sort, given>>

\* choice.match(request)
ChoiceMatch(req) ==
    /\ ChoiceLeft(ChoiceLoop(routers, 1, req, <<>>, TRUE))
    /\ request' = req
    /\ op' = "choice match"
    /\ args' = None
    /\ assembled' = None
    /\ UNCHANGED <<tpl, parsed, route, matched, routes, requires_sort, given>>

\* the keyword arguments of assemble on the Choice: none, or a query_string
ChoiceKwargs == { <<>>, [k \in {QueryString} |-> PageOne] }

\* choice.assemble(route_name, **kwargs)
ChoiceAssemble(route_name, kwargs) ==
    /\ args' = [name |-> route_name, kwargs |-> kwargs]
    /\ assembled' = choice_assemble(routers, 1, route_name, kwargs)
    /\ yielded' = None
    /\ request' = None
    /\ op' = "choice assemble"
    /\ UNCHANGED <<tpl, parsed, route, matched, routes, requires_sort, given,
                   routers>>

NextChoice ==
    \/ \E router \in MemberRouters : AddRouter(router)
    \/ \E path \in RouterPaths : ChoiceMatches(PlainRequest(path))
    \/ \E path \in RouterPaths : ChoiceMatch(PlainRequest(path))
    \/ \E route_name \in RouterNames, kwargs \in ChoiceKwargs :
          ChoiceAssemble(route_name, kwargs)

SpecChoice == InitChoice /\ [][NextChoice]_vars

----------------------------------------------------------------------------
(* C15 *)

\* what matches yields for the i-th member and the request of the state, an
\* error it raises included
C15_Of(i) == matches(routers[i], request)

RECURSIVE C15_Concatenated(_)
\* the match sequences of the first i members, one after the other, up to
\* the first error a member raises
C15_Concatenated(i) ==
    IF i = 0 THEN Yielded(<<>>)
    ELSE LET before == C15_Concatenated(i - 1)
         IN IF before.error # "" THEN before
            ELSE YieldRaised(C15_Of(i).error, before.items \o C15_Of(i).items)

\* the members whose match sequence is not empty: it holds a route match or
\* raises
C15_Matching ==
    {i \in 1..Len(routers) : C15_Of(i).items # <<>> \/ C15_Of(i).error # ""}

\* C15: matches of a Choice yields the match sequences of its members one
\* after the other, in the order the members were registered; match returns
\* the first route match of the first member that has one, whatever the
\* priorities of the matching routes of the members after it.
C15_MemberOrder ==
    /\ op = "choice matches" => yielded = C15_Concatenated(Len(routers))
    /\ op = "choice match" =>
          IF C15_Matching = {} THEN yielded = Yielded(<<>>)
          ELSE LET i == CHOOSE k \in C15_Matching : \A j \in C15_Matching : k <= j
               IN IF C15_Of(i).items = <<>>
                  THEN yielded = YieldRaised(C15_Of(i).error, <<>>)
                  ELSE yielded = Yielded(<<C15_Of(i).items[1]>>)

\* match returned a route of an earlier member although a member registered
\* after it holds a matching route of higher priority
C15_Witness ==
    /\ op = "choice match"
    /\ Len(yielded.items) = 1
    /\ \E i, j \in C15_Matching :
          /\ i < j
          /\ yielded.items[1] = C15_Of(i).items[1]
          /\ \E k \in 1..Len(C15_Of(j).items) :
                priority(C15_Of(j).items[k].route)
                    > priority(yielded.items[1].route)

----------------------------------------------------------------------------
(* C1 *)

\* the places in the router of the routes that match the request
MatchingRoutes(req) ==
    {i \in 1..Len(routes) : RouteMatchOf(routes[i], req).matched}

\* the route matches are in descending (priority, path) order
Descending(items) ==
    \A i \in 1..(Len(items) - 1) :
        KeyLess(Key(items[i].route), Key(items[i + 1].route)) = "ge"

\* C1: after any sequence of add_route, add_definition, sort, match and
\* matches calls, matches(request) raises nothing and yields exactly the
\* registered routes that match the request, in descending (priority, path)
\* order; match(request) returns a matching route whose priority is maximal
\* among the registered routes that match; and the flag set by the adds is
\* resolved by the call.
C1_PriorityOrder ==
    (op \in {"match", "matches"}) =>
        /\ yielded.error = ""
        /\ ~requires_sort
        /\ Descending(yielded.items)
        /\ op = "matches" =>
              /\ Len(yielded.items) = Cardinality(MatchingRoutes(request))
              /\ {yielded.items[i].route : i \in 1..Len(yielded.items)}
                     = {routes[i] : i \in MatchingRoutes(request)}
        /\ op = "match" =>
              IF MatchingRoutes(request) = {} THEN yielded.items = <<>>
              ELSE /\ Len(yielded.items) = 1
                   /\ \E i \in MatchingRoutes(request) :
                          yielded.items[1].route = routes[i]
                   /\ \A i \in MatchingRoutes(request) :
                          priority(routes[i]) <= priority(yielded.items[1].route)

----------------------------------------------------------------------------
(* What a template means, stated without the compiled pattern: used by the *)
(* properties below to say what a route should accept and render.          *)

RECURSIVE SegmentNames(_)
\* the names of the segments of a tree, at any depth
SegmentNames(segments) ==
    IF segments = <<>> THEN {}
    ELSE LET node == Head(segments)
         IN (IF node.type = "segment" THEN {node.value}
             ELSE IF node.type = "optional" THEN SegmentNames(node.value)
             ELSE {}) \cup SegmentNames(Tail(segments))

\* the names of the segments that lie outside every optional group
RequiredNames(segments) ==
    {segments[i].value : i \in {j \in DOMAIN segments : segments[j].type = "segment"}}

\* the tree holds no optional group
RequiredOnly(segments) ==
    \A i \in DOMAIN segments : segments[i].type # "optional"

\* every segment ends the tree or is followed by static text that begins
\* with '/'
Delimited(segments) ==
    \A i \in DOMAIN segments :
        segments[i].type = "segment" /\ i < Len(segments) =>
            /\ segments[i + 1].type = "static"
            /\ Head(segments[i + 1].value) = "/"

RECURSIVE NestedAtEnd(_)
\* the tree ends with its only optional group, and so does that group's
\* content when it holds a group
NestedAtEnd(segments) ==
    /\ segments # <<>>
    /\ segments[Len(segments)].type = "optional"
    /\ \A i \in 1..(Len(segments) - 1) : segments[i].type # "optional"
    /\ LET inner == segments[Len(segments)].value
       IN /\ inner # <<>>
          /\ \/ RequiredOnly(inner)
             \/ NestedAtEnd(inner)

\* an optional group of the top level is followed by more of the template
GroupThenText(segments) ==
    \E i \in DOMAIN segments :
        segments[i].type = "optional" /\ i < Len(segments)

RECURSIVE EndsAfter(_, _, _, _)
\* the positions of s at which a reading of the nodes from i on can end when
\* it starts at one of the positions of `starts`
EndsAfter(segments, i, s, starts) ==
    IF i > Len(segments) THEN starts
    ELSE LET node == segments[i]
             next ==
                IF node.type = "static"
                THEN {pos + Len(node.value) :
                        pos \in {q \in starts : HasAt(s, q, node.value)}}
                ELSE IF node.type = "segment"
                THEN UNION {{pos + n : n \in 1..ClassRun(end_pattern_string, s, pos)} :
                                pos \in starts}
                ELSE starts \cup EndsAfter(node.value, 1, s, starts)
         IN EndsAfter(segments, i + 1, s, next)

\* s is the static text of the template with a non-empty, '/'-free text for
\* every segment, each optional group present or absent as a whole
TemplateAccepts(segments, s) == (Len(s) + 1) \in EndsAfter(segments, 1, s, {1})

\* the value assemble resolves for a name: the keyword argument, else the
\* route's default, None when there is neither
Resolved(r, kw, name) ==
    IF name \in DOMAIN kw THEN kw[name]
    ELSE IF name \in DOMAIN r.defaults THEN r.defaults[name]
    ELSE None

HasValue(r, kw, name) == ~Falsy(Resolved(r, kw, name))

RECURSIVE RenderRequired(_, _, _)
\* the static text and the values of the nodes outside every optional group
RenderRequired(segments, r, kw) ==
    IF segments = <<>> THEN <<>>
    ELSE LET node == Head(segments)
         IN (IF node.type = "static" THEN node.value
             ELSE IF node.type = "segment" THEN Resolved(r, kw, node.value)
             ELSE <<>>) \o RenderRequired(Tail(segments), r, kw)

RECURSIVE BracketDepth(_, _)
\* the number of '[' less the number of ']' among the first i characters
BracketDepth(s, i) ==
    IF i = 0 THEN 0
    ELSE BracketDepth(s, i - 1)
         + (IF s[i] = "[" THEN 1 ELSE IF s[i] = "]" THEN -1 ELSE 0)

\* a ']' occurs while no group is open
StrayClose(s) == \E i \in DOMAIN s : BracketDepth(s, i) < 0

\* every '[' of the template is closed by a later ']' and every ']' closes one
Balanced(s) == ~StrayClose(s) /\ BracketDepth(s, Len(s)) = 0

\* the route of the state, when it was built
TheRoute == route.route
Segs == route.route.segments

----------------------------------------------------------------------------
(* C11 *)

\* the registered route of a name
RouteNamed(name) ==
    routes[CHOOSE i \in 1..Len(routes) : routes[i].name = name]

\* the definition carries a raw pattern, or its path holds ':', '[' or ']'
C11_Pattern(definition) ==
    \/ "regex" \in DOMAIN definition
    \/ /\ "path" \in DOMAIN definition
       /\ \E i \in 1..Len(definition.path) : definition.path[i] \in {":", "[", "]"}

\* C11: add_definition builds a Segment route exactly when the definition
\* carries a raw pattern or its path holds ':', '[' or ']', and a Literal
\* route otherwise; a path with a ']' that closes no group is rejected and
\* no route is registered for it.
C11_BuilderChoice ==
    (op = "add_definition" /\ "name" \in DOMAIN given.before) =>
        /\ yielded.error = "" =>
              RouteNamed(given.before.name).class =
                  (IF C11_Pattern(given.before) THEN "Segment" ELSE "Literal")
        /\ ("path" \in DOMAIN given.before /\ "regex" \notin DOMAIN given.before
                /\ StrayClose(given.before.path)) => yielded.error # ""

----------------------------------------------------------------------------
(* C12 *)

RECURSIVE Tree(_, _, _)
\* the names and paths the definitions of a tree stand for: a child's name
\* is its parent's qualified name, '/' and its own name, and its path is its
\* parent's full path followed by its own
Tree(definition, name, path) ==
    {<<name, path>>} \cup
    UNION { Tree(child, name \o <<"/">> \o ChildName(child), path \o child.path) :
            child \in Range(Get(definition, "children", <<>>)) }

RECURSIVE Declares(_)
\* every definition of the tree declares a path
Declares(definition) ==
    /\ "path" \in DOMAIN definition
    /\ \A child \in Range(Get(definition, "children", <<>>)) : Declares(child)

RECURSIVE Levels(_)
\* the number of nesting levels of a tree
Levels(definition) ==
    LET below == {Levels(child) : child \in Range(Get(definition, "children", <<>>))}
    IN 1 + (IF below = {} THEN 0 ELSE CHOOSE n \in below : \A k \in below : k <= n)

RouteNames(rs) == {rs[i].name : i \in 1..Len(rs)}

\* the names and paths of the routes of a router
NamedPaths(rs) == {<<rs[i].name, rs[i].path>> : i \in 1..Len(rs)}

\* the tree of the definition handed to add_definition
C12_Tree == Tree(given.before, given.before.name, given.before.path)

\* add_definition has registered a tree whose definitions all declare a path
C12_Added ==
    /\ op = "add_definition"
    /\ yielded.error = ""
    /\ "name" \in DOMAIN given.before
    /\ Declares(given.before)

\* C12: adding a definition with children registers one route per
\* definition of the tree, an empty router holding as many routes afterwards
\* as the tree has definitions; each child is named by its parent's
\* qualified name, '/' and its own name, and its path is its parent's full
\* path followed by its own path.
C12_ChildExpansion ==
    [][C12_Added' =>
          /\ C12_Tree' \subseteq NamedPaths(routes')
          /\ RouteNames(routes') =
                RouteNames(routes) \cup {pair[1] : pair \in C12_Tree'}
          /\ routes = <<>> => Len(routes') = Cardinality(C12_Tree')]_vars

\* a tree of three nesting levels was added to an empty router, which holds
\* its three routes
C12_Witness ==
    /\ C12_Added
    /\ Levels(given.before) = 3
    /\ Len(routes) = 3
    /\ Cardinality(C12_Tree) = 3

----------------------------------------------------------------------------
(* C13 *)

\* C13: after child expansion a child route's defaults are the child's own
\* declared defaults merged with the parent route's defaults, and its
\* requires the child's own merged with the parent's: every default of the
\* parent is a default of the child, and no entry of the parent's requires
\* becomes a default of the child.
C13_InheritsDefaults ==
    (op = "add_definition" /\ yielded.error = ""
        /\ "name" \in DOMAIN given.before) =>
        \A child \in Range(Get(given.before, "children", <<>>)) :
            LET parent == RouteNamed(given.before.name)
                own == Get(child, "defaults", <<>>)
                r == RouteNamed(parent.name \o <<"/">> \o ChildName(child))
            IN  /\ DOMAIN r.requires = (DOMAIN Get(child, "requires", <<>>))
                                          \cup DOMAIN parent.requires
                /\ DOMAIN r.defaults = (DOMAIN own) \cup DOMAIN parent.defaults
                /\ \A k \in DOMAIN r.defaults :
                      \/ k \in DOMAIN own /\ r.defaults[k] = own[k]
                      \/ k \in DOMAIN parent.defaults
                            /\ r.defaults[k] = parent.defaults[k]

----------------------------------------------------------------------------
(* C19 *)

\* C19: building a router leaves the caller's definition data as they were,
\* and a second router built from the same data holds the same route names
\* with the same path for each name as the first.
C19_DataUnchanged ==
    (op = "build" /\ routers[1].error = "") =>
        /\ given.after = given.before
        /\ Len(routers) = 2 =>
              /\ routers[2].error = ""
              /\ NamedPaths(routers[2].routes) = NamedPaths(routers[1].routes)

----------------------------------------------------------------------------
(* C16 *)

\* no two routes of the router have the same name
C16_Unique(rs) == \A i, j \in 1..Len(rs) : rs[i].name = rs[j].name => i = j

\* the route add_route was called with is the one route of its name, and
\* assemble and matches by that name use it
C16_Later ==
    op = "add_route" =>
        /\ \E i \in 1..Len(routes) : routes[i] = given.after
        /\ \A i \in 1..Len(routes) :
              routes[i].name = given.after.name => routes[i] = given.after
        /\ \A kwargs \in RouterKwargs :
              assemble(TheRouter, given.after.name, kwargs)
                  = RouteAssemble(given.after, None, kwargs)
        /\ \A path \in RouterPaths :
              LET found == matches(TheRouter, PlainRequest(path)).items
              IN \A k \in 1..Len(found) :
                    found[k].route.name = given.after.name
                        => found[k].route = given.after

\* assemble by a registered name returns what the one route of that name
\* assembles
C16_Assembled ==
    (op = "assemble" /\ args.name \in RouteNames(routes)) =>
        \A i \in 1..Len(routes) :
            routes[i].name = args.name
                => assembled = RouteAssemble(routes[i], None, args.kwargs)

\* C16: the names of the routes of a router stay unique under every sequence
\* of calls; add_route with a route whose name is registered is not rejected,
\* leaves the number of routes as it was and puts the route in the place of
\* the earlier one, so that lookup, assemble and matches by that name use the
\* later route only.
C16_Replacement ==
    /\ [](C16_Unique(routes) /\ C16_Later /\ C16_Assembled)
    /\ [][op' = "add_route" =>
             /\ given'.before = SelectSeq(routes, LAMBDA x : x.name = given'.after.name)
             /\ Len(routes') = Len(routes) + (IF given'.before = <<>> THEN 1 ELSE 0)
             /\ RouteNames(routes') = RouteNames(routes) \cup {given'.after.name}]_vars

\* add_route has replaced a route by one of the same name and another path,
\* in a router that holds a second route
C16_Witness ==
    /\ op = "add_route"
    /\ given.before # <<>>
    /\ given.before[1].path # given.after.path
    /\ given.before[1].class # given.after.class
    /\ Len(routes) >= 2

----------------------------------------------------------------------------
(* C17 *)

\* C17: for every request and every set of routes registered in the router,
\* match returns one route match or none and matches yields a sequence that
\* may be empty; neither raises, and the sort that precedes the iteration
\* does not raise either.
C17_Total ==
    /\ op \in {"match", "matches"} => yielded.error = ""
    /\ op = "match" => Len(yielded.items) <= 1

----------------------------------------------------------------------------
(* C18 *)

\* sub occurs in s
Infix(sub, s) ==
    \E i \in 0..(Len(s) - Len(sub)) : SubSeq(s, i + 1, i + Len(sub)) = sub

\* what assemble returns for the name without a query_string
C18_Path ==
    choice_assemble(routers, 1, args.name, Without(args.kwargs, QueryString)).path

\* C18: assemble by name with a query_string returns the path of the route,
\* then "?", then the pairs of the mapping as key=value, each of them in the
\* result; without a query_string it returns the path alone.
C18_QueryString ==
    (op = "choice assemble" /\ assembled.error = "") =>
        IF QueryString \in DOMAIN args.kwargs
        THEN LET query == args.kwargs[QueryString]
                 n == Len(C18_Path)
             IN /\ Len(assembled.path) > n
                /\ SubSeq(assembled.path, 1, n + 1) = C18_Path \o <<"?">>
                /\ \A k \in DOMAIN query :
                      Infix(k \o <<"=">> \o query[k],
                            SubSeq(assembled.path, n + 2, Len(assembled.path)))
        ELSE assembled.path = C18_Path

----------------------------------------------------------------------------
(* C2 *)

\* every segment is given a non-empty value that its constraint accepts
C2_Assigned ==
    \A n \in SegmentNames(Segs) :
        /\ n \in DOMAIN args
        /\ PatternAccepts(Get(TheRoute.requires, n, end_pattern_string), args[n])

C2_NoSlash == \A n \in DOMAIN args : "/" \notin Range(args[n])

\* the match of the assembled path returns the values given to assemble
C2_Recovered ==
    /\ matched.matched
    /\ \A n \in SegmentNames(Segs) : matched.params[n] = args[n]

\* C2 as the specification states it: for any template of required segments
\* only and any accepted non-empty values, assemble returns the static text
\* with the values in place, and matching that path returns the values.
C2_RoundTripRequired ==
    /\ (op = "assemble" /\ RequiredOnly(Segs) /\ C2_Assigned) =>
            /\ assembled.error = ""
            /\ assembled.path = RenderRequired(Segs, TheRoute, args)
    /\ (op = "roundtrip" /\ RequiredOnly(Segs) /\ C2_Assigned) => C2_Recovered

\* C2, amended: the round trip holds for the templates of required segments
\* only in which every segment is followed by '/' or ends the template, and
\* for the accepted non-empty values that hold no '/'.
C2_RoundTripDelimited ==
    /\ (op = "assemble" /\ RequiredOnly(Segs) /\ C2_Assigned) =>
            /\ assembled.error = ""
            /\ assembled.path = RenderRequired(Segs, TheRoute, args)
    /\ (op = "roundtrip" /\ RequiredOnly(Segs) /\ Delimited(Segs)
            /\ C2_Assigned /\ C2_NoSlash) => C2_Recovered

\* a route of two delimited required segments has matched the path assembled
\* from two different values
C2_Witness ==
    /\ op = "roundtrip"
    /\ RequiredOnly(Segs) /\ Delimited(Segs)
    /\ C2_Assigned /\ C2_NoSlash
    /\ Cardinality(SegmentNames(Segs)) = 2
    /\ args[<<"b">>] # args[<<"c">>]
    /\ C2_Recovered

----------------------------------------------------------------------------
(* C3 *)

RECURSIVE CapturedGroups(_, _)
\* the captures say which groups were present: a group is present when all
\* of its own segments were captured, absent when no segment in it was
CapturedGroups(segments, groups) ==
    \A i \in DOMAIN segments :
        LET node == segments[i]
        IN node.type = "optional" =>
            \/ \A n \in SegmentNames(node.value) : groups[n] = None
            \/ /\ \A n \in RequiredNames(node.value) : groups[n] # None
               /\ CapturedGroups(node.value, groups)

\* C3: a route whose optional groups are nested at the end of its template
\* matches exactly the paths made of the required part followed by the
\* groups taken outermost first, capturing the segments present, and no
\* path with more text after them.
C3_NestedGroups ==
    (op = "match" /\ Balanced(tpl) /\ NestedAtEnd(Segs)) =>
        /\ matched.matched <=> TemplateAccepts(Segs, request.path)
        /\ matched.matched =>
            /\ \A n \in RequiredNames(Segs) : matched.params[n] # None
            /\ CapturedGroups(Segs, matched.params)

----------------------------------------------------------------------------
(* C4 *)

\* C4: a route whose template goes on after an optional group matches the
\* paths with the group absent and the paths with the group present.
C4_GroupThenText ==
    (op = "match" /\ Balanced(tpl) /\ GroupThenText(Segs)
        /\ TemplateAccepts(Segs, request.path)) => matched.matched

----------------------------------------------------------------------------
(* C5 *)

C5_MissingRequired == {n \in RequiredNames(Segs) : ~HasValue(TheRoute, args, n)}

\* C5: assemble raises KeyError naming the segment when a segment outside
\* every optional group has no non-empty value in the parameters or defaults.
C5_MissingRaises ==
    (op = "assemble" /\ Balanced(tpl) /\ C5_MissingRequired # {}) =>
        /\ assembled.error = "KeyError"
        /\ assembled.missing \in C5_MissingRequired

----------------------------------------------------------------------------
(* C6 *)

\* no segment inside an optional group has a value
C6_GroupsEmpty ==
    \A n \in SegmentNames(Segs) \ RequiredNames(Segs) : ~HasValue(TheRoute, args, n)

\* C6: when no placeholder inside the optional groups has a value, assemble
\* leaves the groups out with all their static text: the path is the
\* required part alone.
C6_GroupOmitted ==
    (op = "assemble" /\ Balanced(tpl) /\ C6_GroupsEmpty
        /\ C5_MissingRequired = {}
        /\ SegmentNames(Segs) # RequiredNames(Segs)) =>
        /\ assembled.error = ""
        /\ assembled.path = RenderRequired(Segs, TheRoute, args)

----------------------------------------------------------------------------
(* C7 *)

\* every value given is '/'-free and accepted by its segment's constraint
C7_Valid ==
    /\ C2_NoSlash
    /\ \A n \in DOMAIN args :
          args[n] = <<>> \/
          PatternAccepts(Get(TheRoute.requires, n, end_pattern_string), args[n])

RECURSIVE DelimitedTree(_)
\* Delimited, for the content of the optional groups as well
DelimitedTree(segments) ==
    /\ Delimited(segments)
    /\ \A i \in DOMAIN segments :
          segments[i].type = "optional" => DelimitedTree(segments[i].value)

\* C7: whenever assemble returns a path, the route matches that path and
\* the match returns every value that assemble was given. (Stated for the
\* templates and values for which the round trip of C2 holds.)
C7_RoundTripAny ==
    (op = "roundtrip" /\ Balanced(tpl) /\ DelimitedTree(Segs) /\ C7_Valid) =>
        /\ matched.matched
        /\ \A n \in SegmentNames(Segs) :
              HasValue(TheRoute, args, n) =>
                  matched.params[n] = Resolved(TheRoute, args, n)

----------------------------------------------------------------------------
(* C9, C10 *)

\* C9: parsing a template with a ']' that closes no open group raises
\* ValueError, wherever the ']' stands.
C9_StrayCloseRaises ==
    (op = "parse" /\ StrayClose(tpl)) => parsed.error = "ValueError"

\* C10: parsing a template that ends with a group still open raises an
\* error and returns no tree.
C10_UnterminatedRaises ==
    (op = "parse" /\ ~StrayClose(tpl) /\ BracketDepth(tpl, Len(tpl)) > 0) =>
        parsed.error # ""

----------------------------------------------------------------------------
(* C8 *)

\* the candidates, in table order, that the route's format pattern matches
C8_Matching ==
    SelectSeq(Formats(request.accept),
              LAMBDA entry : PatternMatch(TheRoute.requires[FormatKey], entry.format))

\* C8: a route that requires a format matches only when a candidate format
\* of the Accept header matches the format pattern, and records the first
\* such candidate as the parameter format.
C8_FormatCheck ==
    (/\ op = "match"
     /\ FormatKey \in DOMAIN TheRoute.requires
     /\ TheRoute.requires[FormatKey].kind # "set") =>
        /\ C8_Matching = <<>> => ~matched.matched
        /\ matched.matched =>
              /\ FormatKey \in DOMAIN matched.params
              /\ matched.params[FormatKey] = C8_Matching[1].format

====
